---- MODULE Spec2Model ----
(***************************************************************************)
(* A model of graphql-loader: the document transforms of transforms.ts     *)
(* (removeDuplicateFragments, removeUnusedFragments) and the loader of     *)
(* loader.ts (loadOptions, loadSource, extractImports, the pipeline of     *)
(* the default export).                                                    *)
(*                                                                         *)
(* Two specifications share the module:                                    *)
(*   SpecTransforms  the two exported transforms applied, any number of    *)
(*                   times in any order, to every document of a bounded    *)
(*                   set;                                                  *)
(*   Spec            one run of the loader over a bounded set of import    *)
(*                   graphs, with the host's callbacks in every order.     *)
(***************************************************************************)
EXTENDS Naturals, Sequences, FiniteSets, TLC

\* ------------------------------------------------------------------ bounds

\* The longest definitions list of a document SpecTransforms starts from.
MaxDefs == 3

\* ------------------------------------------------------------- AST (graphql)

Range(s) == {s[i] : i \in 1..Len(s)}

\* The fragment names of the documents of SpecTransforms.
FragmentNames == {"a", "b"}

\* SelectionNode. A Field without a selection set (selection.selectionSet
\* undefined) has the empty sequence: traverse skips both alike.
FragmentSpread(n) == [kind |-> "FragmentSpread", name |-> n, selectionSet |-> <<>>]

Field(sel) == [kind |-> "Field", name |-> "f", selectionSet |-> sel]

InlineFragment(sel) == [kind |-> "InlineFragment", name |-> "", selectionSet |-> sel]

\* DefinitionNode. loc stands for the rest of the node (source location, type
\* condition): two definitions of one name from two files differ in it.
OperationDefinition(n, sel, loc) ==
    [kind |-> "OperationDefinition", name |-> n, selectionSet |-> sel, loc |-> loc]

FragmentDefinition(n, sel, loc) ==
    [kind |-> "FragmentDefinition", name |-> n, selectionSet |-> sel, loc |-> loc]

\* Any other definition kind the parser accepts (type system definitions):
\* it carries a name and no selection set.
ObjectTypeDefinition(n, loc) ==
    [kind |-> "ObjectTypeDefinition", name |-> n, selectionSet |-> <<>>, loc |-> loc]

\* DocumentNode
Document(defs) == [kind |-> "Document", definitions |-> defs]

\* ----------------------------------------------- transforms.ts: the transforms

\* A callback with the test inverted: it drops a fragment whose name is new.
dedupeKeepsInverted(def, usedName) ==
    IF def.kind # "FragmentDefinition"
    THEN TRUE
    ELSE def.name \in usedName

\* removeDuplicateFragments, the filter callback: its return value.
dedupeKeeps(def, usedName) ==
    IF def.kind # "FragmentDefinition"
    THEN TRUE
    ELSE def.name \notin usedName

\* A callback that forgets usedName.add(name).
usedNameNeverAdded(def, usedName) == usedName

\* A callback that, on a repeated name, takes the name out of the set again.
usedNameToggled(def, usedName) ==
    IF def.kind # "FragmentDefinition"
    THEN usedName
    ELSE IF def.name \in usedName
         THEN usedName \ {def.name}
         ELSE usedName \cup {def.name}

\* removeDuplicateFragments, the filter callback: usedName after the call.
usedNameAfter(def, usedName) ==
    IF def.kind # "FragmentDefinition"
    THEN usedName
    ELSE IF def.name \in usedName
         THEN usedName
         ELSE usedName \cup {def.name}

\* document.definitions.filter(...) with the set usedName the callback closes over.
RECURSIVE dedupeFilter(_, _)
dedupeFilter(defs, usedName) ==
    IF defs = <<>>
    THEN <<>>
    ELSE LET def == Head(defs)
             rest == dedupeFilter(Tail(defs), usedNameAfter(def, usedName))
         IN IF dedupeKeeps(def, usedName) THEN <<def>> \o rest ELSE rest

removeDuplicateFragments(document) ==
    [document EXCEPT !.definitions = dedupeFilter(document.definitions, {})]

\* A traverse that does not descend into nested selection sets.
traverseShallow(selectionSet) ==
    {sel.name : sel \in {s \in Range(selectionSet) : s.kind = "FragmentSpread"}}

\* removeUnusedFragments, traverse: the names it adds to usedFragments.
RECURSIVE traverse(_)
traverse(selectionSet) ==
    UNION { IF selection.kind = "FragmentSpread"
            THEN {selection.name}
            ELSE IF selection.selectionSet # <<>>
                 THEN traverse(selection.selectionSet)
                 ELSE {}
            : selection \in Range(selectionSet) }

\* removeUnusedFragments, findFragmentSpreads: usedFragments after the walk.
findFragmentSpreads(doc) ==
    UNION { traverse(def.selectionSet)
            : def \in {d \in Range(doc.definitions) :
                          \/ d.kind = "OperationDefinition"
                          \/ d.kind = "FragmentDefinition"} }

\* A filter that keeps operations and used fragments only.
pruneKeepsOperationsOnly(def, usedFragments) ==
    def.kind = "OperationDefinition" \/
    (def.kind = "FragmentDefinition" /\ def.name \in usedFragments)

\* removeUnusedFragments, the filter callback.
pruneKeeps(def, usedFragments) ==
    def.kind # "FragmentDefinition" \/ def.name \in usedFragments

\* One invocation's own work: the walk and the filter.
prunePass(document) ==
    LET usedFragments == findFragmentSpreads(document)
    IN [document EXCEPT !.definitions =
           SelectSeq(document.definitions, LAMBDA def : pruneKeeps(def, usedFragments))]

\* An invocation that never runs the function again.
pruneNeverAgain(defCount, result) == FALSE

\* An invocation that runs the function again whatever the pass removed.
pruneAlwaysAgain(defCount, result) == TRUE

\* if (defCount !== result.definitions.length)
pruneAgain(defCount, result) == defCount # Len(result.definitions)

RECURSIVE removeUnusedFragments(_)
removeUnusedFragments(document) ==
    LET defCount == Len(document.definitions)
        result == prunePass(document)
    IN IF pruneAgain(defCount, result)
       THEN removeUnusedFragments(result)
       ELSE result

\* --------------------------------------------- SpecTransforms: its documents

NoSpread == <<Field(<<>>)>>

Direct(n) == <<FragmentSpread(n)>>

Nested(n) == <<Field(<<>>), Field(<<InlineFragment(<<FragmentSpread(n)>>)>>)>>

Both == <<FragmentSpread("b"), Field(<<>>), FragmentSpread("a")>>

SelectionSets ==
    {NoSpread, Both}
    \cup {Direct(n) : n \in FragmentNames}
    \cup {Nested(n) : n \in FragmentNames}

\* Operations and type definitions are named like a fragment: only the kind
\* tells them apart.
Definitions ==
    {OperationDefinition("a", sel, "t") : sel \in SelectionSets}
    \cup {FragmentDefinition(n, sel, "t") : n \in FragmentNames, sel \in SelectionSets}
    \cup {ObjectTypeDefinition("a", "t")}

SeqsUpTo(S, n) == UNION {[1..k -> S] : k \in 0..n}

Documents == {Document(defs) : defs \in SeqsUpTo(Definitions, MaxDefs)}

VARIABLES
    tDoc,     \* SpecTransforms: the document the caller holds
    tPrev,    \* SpecTransforms: the argument of the last call
    tOps,     \* SpecTransforms: the last two completed calls: [name, passes, removed]
    tPhase,   \* SpecTransforms: "idle", or "pruning" inside removeUnusedFragments
    tCur,     \* removeUnusedFragments: the document of the current invocation
    tCounts,  \* removeUnusedFragments: defCount of every invocation so far
    world,          \* the files of the build: who imports whom, and what is broken
    options,        \* loader.getOptions()
    pc,             \* where the loader function stands
    currentContext, \* findFileInTree: the directory being tried
    schemaPath,     \* loadSchema: the schema file found
    lastChangedAt,  \* loadSchema: the schema file's modification time
    schema,         \* the loader's options.schema after loadOptions
    cachedSchemas,  \* the module's cache: path -> [mtime, schema]
    frames,         \* the loadSource invocations, by position in the import tree
    deps,           \* the paths given to loader.addDependency
    emitted,        \* the errors given to loader.emitError, in order
    doneCalls,      \* the calls of the completion callback, in order
    stages,         \* the documents the pipeline went through
    overtaken,      \* some callback has fired before one issued earlier by the same invocation
    schemaFailure,  \* what made loadOptions throw, "" while it has not
    sLines,         \* SpecScan: the lines extractImports is given
    sResult,        \* SpecScan: what its scan of the lines came to
    invocations,    \* SpecSchemaCache: the loadSchema calls of concurrent loader invocations
    schemaFile,     \* SpecSchemaCache: the schema file on disk: [mtime, version, json]
    builds          \* SpecSchemaCache: the schemas built so far, in order

tvars == <<tDoc, tPrev, tOps, tPhase, tCur, tCounts>>

lvars == <<world, options, pc, currentContext, schemaPath, lastChangedAt, schema,
           cachedSchemas, frames, deps, emitted, doneCalls, stages, overtaken, schemaFailure>>

svars == <<sLines, sResult>>

cvars == <<invocations, schemaFile, builds>>

xvars == <<svars, cvars>>

vars == <<tvars, lvars, xvars>>

\* ----------------------------------------------------- loader.ts: the files

\* The most #import lines of one file.
MaxImports == 2

\* The most errors the validator returns.
MaxErrors == 2

\* Paths are sequences of components; the root directory is the empty one.
dirname(path) == IF path = <<>> THEN <<>> ELSE SubSeq(path, 1, Len(path) - 1)

join(context, name) == Append(context, name)

\* loader.context, the directory of the resource
LoaderContext == <<"src">>

\* The resource and the files it may import, all in LoaderContext.
RootFile == "R"

ImportableFiles == {"A", "B", "W"}

AllFiles == {RootFile} \cup ImportableFiles

\* The files a file may import: the import graphs of Spec have no cycle.
Importable(file) ==
    CASE file = "R" -> {"A", "B", "W"}
      [] file = "A" -> {"B", "W"}
      [] file = "B" -> {"W"}
      [] OTHER -> {}

Distinct(s) == \A i \in 1..Len(s) : \A j \in 1..Len(s) : i # j => s[i] # s[j]

ImportLists(file) == {s \in SeqsUpTo(Importable(file), MaxImports) : Distinct(s)}

\* What is broken in the sources: nothing, a file that does not parse, or a
\* file with an unquoted #import line after its other #import lines.
Faults ==
    {[kind |-> "none", file |-> RootFile]}
    \cup {[kind |-> k, file |-> f] : k \in {"syntax", "badImport"}, f \in AllFiles}

Graphs ==
    {[f \in AllFiles |-> CASE f = "R" -> r [] f = "A" -> a [] f = "B" -> b [] OTHER -> <<>>]
        : r \in ImportLists("R"), a \in ImportLists("A"), b \in ImportLists("B")}

Worlds == {[imports |-> g, fault |-> x] : g \in Graphs, x \in Faults}

\* The definitions each file holds.
FileDefinitions(file) ==
    CASE file = "R" ->
            <<OperationDefinition("Q", <<FragmentSpread("a"), Field(<<FragmentSpread("b")>>)>>, "R")>>
      [] file = "A" ->
            <<FragmentDefinition("a", Direct("shared"), "A"),
              FragmentDefinition("dup", NoSpread, "A")>>
      [] file = "B" ->
            <<FragmentDefinition("b", Direct("shared"), "B"),
              OperationDefinition("QB", NoSpread, "B"),
              FragmentDefinition("dup", Direct("b"), "B")>>
      [] OTHER ->
            <<FragmentDefinition("shared", NoSpread, "W"),
              FragmentDefinition("unused", NoSpread, "W")>>

\* Source text, as the lines source.split(/(\r\n|\r|\n)/) yields (the separators
\* it also yields begin with no "#"); a line is a sequence of characters.
ImportWord == <<"i", "m", "p", "o", "r", "t">>

DoubleQuote == "\""

SingleQuote == "'"

importLine(quote, name) == <<"#">> \o ImportWord \o <<" ", quote, ".", "/", name, quote>>

unquotedImportLine == <<"#">> \o ImportWord \o <<" ", ".", "/", "W">>

commentLine == <<"#", " ", "i", "m", "p", "o", "r", "t">>

queryLine == <<"q", "u", "e", "r", "y", " ", "{">>

\* The lines of a file: a comment, its #import lines (double and single quotes
\* in turn), the unquoted one if the world breaks this file so, its definitions.
sourceLines(file) ==
    LET targets == world.imports[file]
    IN <<commentLine>>
       \o [i \in 1..Len(targets) |->
              importLine(IF i % 2 = 1 THEN DoubleQuote ELSE SingleQuote, targets[i])]
       \o (IF world.fault.kind = "badImport" /\ world.fault.file = file
           THEN <<unquotedImportLine>> ELSE <<>>)
       \o <<queryLine>>

\* graphqlParse(new Source(source, "GraphQL/file")): whether it returns
parses(file) == ~(world.fault.kind = "syntax" /\ world.fault.file = file)

\* graphqlParse: the document it returns
parsedDocument(file) == Document(FileDefinitions(file))

\* String.prototype.split with a one-character separator
RECURSIVE split(_, _)
split(s, sep) ==
    IF \A k \in 1..Len(s) : s[k] # sep
    THEN <<s>>
    ELSE LET k == CHOOSE k \in 1..Len(s) : s[k] = sep /\ \A j \in 1..(k - 1) : s[j] # sep
         IN <<SubSeq(s, 1, k - 1)>> \o split(SubSeq(s, k + 1, Len(s)), sep)

IsQuote(c) == c = DoubleQuote \/ c = SingleQuote

\* comment[1].match(/^["'](.+)["']/): whether it matches, and group 1 (the
\* greedy .+ runs to the last quote that leaves it a character).
matchQuoted(token) ==
    LET closing == {j \in 3..Len(token) : IsQuote(token[j])}
    IN IF Len(token) >= 3 /\ IsQuote(token[1]) /\ closing # {}
       THEN LET last == CHOOSE j \in closing : \A k \in closing : k <= j
            IN [matched |-> TRUE, group |-> SubSeq(token, 2, last - 1)]
       ELSE [matched |-> FALSE, group |-> <<>>]

\* extractImports, lines.forEach: the file paths of the #import lines, in
\* order, up to the line that throws, if one does.
RECURSIVE scanImports(_, _)
scanImports(lines, paths) ==
    IF lines = <<>>
    THEN [paths |-> paths, threw |-> FALSE]
    ELSE LET line == Head(lines)
             comment == split(Tail(line), " ")
         IN IF line = <<>> \/ line[1] # "#"
            THEN scanImports(Tail(lines), paths)
            ELSE IF comment[1] # ImportWord
            THEN scanImports(Tail(lines), paths)
            ELSE IF Len(comment) < 2 \/ comment[2] = <<>> \/ ~matchQuoted(comment[2]).matched
            THEN [paths |-> paths, threw |-> TRUE]
            ELSE scanImports(Tail(lines), Append(paths, matchQuoted(comment[2]).group))

\* loader.resolve(resolveContext, filePath, ...) when it finds the file: "./X"
\* in a directory is the file X of that directory.
resolved(resolveContext, filePath) == join(resolveContext, filePath[Len(filePath)])

\* loader.fs.readFile(filePath, ...) when it delivers: a file's text is known
\* by the file's name.
contentOf(filePath) == filePath[Len(filePath)]

\* ------------------------------------------- loader.ts: promises and frames

\* Promise.all over n promises: the values array and the indices fulfilled.
NoPath == <<>>

NoContent == [fileContext |-> <<>>, content |-> ""]

NoDocument == Document(<<>>)

awaiting(n, blank) == [vals |-> [i \in 1..n |-> blank], got |-> {}]

\* A join that stores each value at the next free place: in completion order.
settledInCompletionOrder(all, index, value) ==
    [vals |-> [all.vals EXCEPT ![Cardinality(all.got) + 1] = value],
     got |-> all.got \cup {index}]

\* Promise.all: the promise at index is fulfilled with value.
settled(all, index, value) ==
    [vals |-> [all.vals EXCEPT ![index] = value], got |-> all.got \cup {index}]

allSettled(all) == all.got = DOMAIN all.vals

\* nodes.reduce(...) and the returned document:
\* [...document.definitions, ...fragmentDefinitions]
RECURSIVE definitionsOf(_)
definitionsOf(nodes) ==
    IF nodes = <<>> THEN <<>> ELSE Head(nodes).definitions \o definitionsOf(Tail(nodes))

mergedDocument(document, nodes) ==
    [document EXCEPT !.definitions = document.definitions \o definitionsOf(nodes)]

\* loadSource(loader, resolveContext, source) up to its first suspension: the
\* parse, the scan of the lines with a loader.resolve call for every #import
\* line it passes, and, for a source without #import lines, the whole function.
newFrame(resolveContext, source) ==
    LET scan == IF parses(source)
                THEN scanImports(sourceLines(source), <<>>)
                ELSE [paths |-> <<>>, threw |-> FALSE]
        n == Len(scan.paths)
    IN [file |-> source,
        context |-> resolveContext,
        status |-> IF ~parses(source) \/ scan.threw THEN "rejected"
                   ELSE IF n = 0 THEN "fulfilled"
                   ELSE "resolving",
        err |-> IF ~parses(source) THEN "GraphQLError: Syntax Error"
                ELSE IF scan.threw THEN "Error: #import statement must specify a quoted file path"
                ELSE "",
        requests |-> scan.paths,
        pendingResolve |-> 1..n,
        files |-> awaiting(n, NoPath),
        pendingRead |-> {},
        contents |-> awaiting(n, NoContent),
        nodes |-> awaiting(n, NoDocument),
        result |-> IF parses(source) /\ ~scan.threw /\ n = 0
                   THEN mergedDocument(parsedDocument(source), <<>>)
                   ELSE NoDocument]

rejectedWith(frame, err) == [frame EXCEPT !.status = "rejected", !.err = err]

\* The invocation that awaits frame id, and the index it holds it at.
parentOf(id) == SubSeq(id, 1, Len(id) - 1)

indexOf(id) == id[Len(id)]

\* A loadSource promise has settled: the Promise.all(nodes) of the invocation
\* awaiting it takes the value, or rejects; an invocation that returns or
\* throws settles its own promise in turn, up to the loader.
RECURSIVE propagate(_, _)
propagate(fr, id) ==
    IF id = <<>> THEN fr
    ELSE LET p == parentOf(id)
             child == fr[id]
             parent == fr[p]
         IN IF parent.status # "loading" THEN fr
            ELSE IF child.status = "rejected"
            THEN propagate([fr EXCEPT ![p] = rejectedWith(parent, child.err)], p)
            ELSE LET nodes == settled(parent.nodes, indexOf(id), child.result)
                 IN IF allSettled(nodes)
                    THEN propagate(
                            [fr EXCEPT ![p] = [parent EXCEPT
                                !.nodes = nodes,
                                !.status = "fulfilled",
                                !.result = mergedDocument(parsedDocument(parent.file), nodes.vals)]],
                            p)
                    ELSE [fr EXCEPT ![p] = [parent EXCEPT !.nodes = nodes]]

\* The values of the children that have returned already, taken in index order.
RECURSIVE settledAll(_, _, _)
settledAll(all, kids, i) ==
    IF i > Len(kids) THEN all
    ELSE settledAll(IF kids[i].status = "fulfilled" THEN settled(all, i, kids[i].result) ELSE all,
                    kids, i + 1)

\* A loader that does not load a file again from inside its own expansion.
startChildrenOnce(fr, id) ==
    LET parent == fr[id]
        n == Len(parent.contents.vals)
        onPath == {fr[SubSeq(id, 1, k)].file : k \in 0..Len(id)}
        kids == [i \in 1..n |->
                    LET kid == newFrame(parent.contents.vals[i].fileContext,
                                        parent.contents.vals[i].content)
                    IN IF parent.contents.vals[i].content \in onPath
                       THEN [kid EXCEPT !.status = "fulfilled", !.err = "", !.requests = <<>>,
                                        !.pendingResolve = {}, !.files = awaiting(0, NoPath),
                                        !.contents = awaiting(0, NoContent),
                                        !.nodes = awaiting(0, NoDocument),
                                        !.result = NoDocument]
                       ELSE kid]
        withKids == [k \in DOMAIN fr \cup {Append(id, i) : i \in 1..n} |->
                        IF k \in DOMAIN fr THEN fr[k] ELSE kids[indexOf(k)]]
        failedParse == {i \in 1..n : kids[i].status = "rejected" /\ ~parses(kids[i].file)}
        failedScan == {i \in 1..n : kids[i].status = "rejected" /\ parses(kids[i].file)}
        firstOf(S) == CHOOSE i \in S : \A j \in S : i <= j
        nodes == settledAll(parent.nodes, kids, 1)
    IN IF failedParse # {}
       THEN propagate([withKids EXCEPT ![id] =
                rejectedWith([parent EXCEPT !.status = "loading"], kids[firstOf(failedParse)].err)], id)
       ELSE IF failedScan # {}
       THEN propagate([withKids EXCEPT ![id] =
                rejectedWith([parent EXCEPT !.status = "loading"], kids[firstOf(failedScan)].err)], id)
       ELSE IF allSettled(nodes)
       THEN propagate([withKids EXCEPT ![id] = [parent EXCEPT
                !.nodes = nodes,
                !.status = "fulfilled",
                !.result = mergedDocument(parsedDocument(parent.file), nodes.vals)]], id)
       ELSE [withKids EXCEPT ![id] = [parent EXCEPT !.nodes = nodes, !.status = "loading"]]

\* contents.map(... loadSource ...) and Promise.all(nodes): every child runs to
\* its first suspension, in order. A child that threw in graphqlParse is
\* rejected at once, one that threw in extractImports a microtask later, so
\* the first of the former, if any, is the rejection Promise.all takes.
startChildren(fr, id) ==
    LET parent == fr[id]
        n == Len(parent.contents.vals)
        kids == [i \in 1..n |-> newFrame(parent.contents.vals[i].fileContext,
                                         parent.contents.vals[i].content)]
        withKids == [k \in DOMAIN fr \cup {Append(id, i) : i \in 1..n} |->
                        IF k \in DOMAIN fr THEN fr[k] ELSE kids[indexOf(k)]]
        failedParse == {i \in 1..n : kids[i].status = "rejected" /\ ~parses(kids[i].file)}
        failedScan == {i \in 1..n : kids[i].status = "rejected" /\ parses(kids[i].file)}
        firstOf(S) == CHOOSE i \in S : \A j \in S : i <= j
        nodes == settledAll(parent.nodes, kids, 1)
    IN IF failedParse # {}
       THEN propagate([withKids EXCEPT ![id] =
                rejectedWith([parent EXCEPT !.status = "loading"], kids[firstOf(failedParse)].err)], id)
       ELSE IF failedScan # {}
       THEN propagate([withKids EXCEPT ![id] =
                rejectedWith([parent EXCEPT !.status = "loading"], kids[firstOf(failedScan)].err)], id)
       ELSE IF allSettled(nodes)
       THEN propagate([withKids EXCEPT ![id] = [parent EXCEPT
                !.nodes = nodes,
                !.status = "fulfilled",
                !.result = mergedDocument(parsedDocument(parent.file), nodes.vals)]], id)
       ELSE [withKids EXCEPT ![id] = [parent EXCEPT !.nodes = nodes, !.status = "loading"]]

\* ------------------------------------------------ loader.ts: the pipeline

OptionSets ==
    {[validate |-> v, schema |-> s, removeUnusedFragments |-> r,
      minify |-> FALSE, emitDefaultExport |-> FALSE]
        : v \in BOOLEAN, s \in {"", "schema.json"}, r \in BOOLEAN}
    \cup {[validate |-> FALSE, schema |-> "", removeUnusedFragments |-> FALSE,
           minify |-> m, emitDefaultExport |-> ~m] : m \in BOOLEAN}

\* graphqlValidate(options.schema, document): the lists of errors it may return
validatorResults(sch) ==
    IF sch = "undefined" THEN {<<>>} ELSE {[i \in 1..n |-> i] : n \in 0..MaxErrors}

\* `${exp}${output}`: the export form, whether the text went through
\* minifyDocumentString, and the document graphqlPrint was given.
moduleText(document) ==
    [exp |-> IF options.emitDefaultExport THEN "export default " ELSE "module.exports = ",
     minified |-> options.minify,
     printed |-> document]

\* A loader that reports the first validation error only.
emitErrorsFirstOnly(validationErrors) ==
    IF validationErrors = <<>> THEN <<>> ELSE <<validationErrors[1]>>

\* validationErrors.forEach((err) => this.emitError(err)): the calls made
emitErrors(validationErrors) == validationErrors

\* done(null, `${exp}${output}`)
completion(text) == [err |-> "null", result |-> <<text>>]

\* A loader that validates the document before it prunes it.
pipelineValidatesBeforePrune(expanded, sch, validationErrors) ==
    LET deduped == removeDuplicateFragments(expanded)
        pruned == IF options.removeUnusedFragments
                  THEN removeUnusedFragments(deduped)
                  ELSE deduped
    IN [stages |-> [expanded |-> <<expanded>>,
                    deduped |-> <<deduped>>,
                    pruned |-> IF options.removeUnusedFragments THEN <<pruned>> ELSE <<>>,
                    validated |-> IF sch # "undefined" THEN <<deduped>> ELSE <<>>,
                    errors |-> validationErrors,
                    printed |-> <<pruned>>],
        emitted |-> IF sch # "undefined" THEN emitErrors(validationErrors) ELSE <<>>,
        done |-> completion(moduleText(pruned))]

\* The loader from the return of loadSource to the call of done.
pipeline(expanded, sch, validationErrors) ==
    LET deduped == removeDuplicateFragments(expanded)
        pruned == IF options.removeUnusedFragments
                  THEN removeUnusedFragments(deduped)
                  ELSE deduped
    IN [stages |-> [expanded |-> <<expanded>>,
                    deduped |-> <<deduped>>,
                    pruned |-> IF options.removeUnusedFragments THEN <<pruned>> ELSE <<>>,
                    validated |-> IF sch # "undefined" THEN <<pruned>> ELSE <<>>,
                    errors |-> validationErrors,
                    printed |-> <<pruned>>],
        emitted |-> IF sch # "undefined" THEN emitErrors(validationErrors) ELSE <<>>,
        done |-> completion(moduleText(pruned))]

NoStages == [expanded |-> <<>>, deduped |-> <<>>, pruned |-> <<>>, validated |-> <<>>,
             errors |-> <<>>, printed |-> <<>>]

NoFrames == [id \in {} |-> NoDocument]

NoSchemas == [path \in {} |-> NoDocument]

Settled(frame) == frame.status \in {"fulfilled", "rejected"}

\* A loader that goes on to done whenever it finds its promise settled.
rootSettlesAgain(fr) == Settled(fr[<<>>])

rootSettles(fr) ==
    /\ Settled(fr[<<>>])
    /\ <<>> \in DOMAIN frames => ~Settled(frames[<<>>])

\* done(err), from the catch of the loader
failure(err) == [err |-> err, result |-> <<>>]

\* The loader after an event of the document pipeline: when the promise of its
\* own loadSource call has settled it runs to the call of done, in the try
\* block or in the catch.
loaderContinues(fr, sch) ==
    /\ frames' = fr
    /\ IF rootSettles(fr)
       THEN /\ pc' = "done"
            /\ IF fr[<<>>].status = "rejected"
               THEN /\ doneCalls' = Append(doneCalls, failure(fr[<<>>].err))
                    /\ UNCHANGED <<emitted, stages>>
               ELSE \E validationErrors \in validatorResults(sch) :
                       LET out == pipeline(fr[<<>>].result, sch, validationErrors)
                       IN /\ doneCalls' = Append(doneCalls, out.done)
                          /\ emitted' = emitted \o out.emitted
                          /\ stages' = out.stages
       ELSE /\ pc' = IF pc = "done" THEN "done" ELSE "loadSource"
            /\ UNCHANGED <<doneCalls, emitted, stages>>

\* let document = await loadSource(this, this.context, source)
rootFrame == [id \in {<<>>} |-> newFrame(LoaderContext, RootFile)]

\* A loader that calls loadSource without awaiting loadOptions first.
loaderThrowsAfterLoadSource(err) ==
    /\ pc' = "done"
    /\ doneCalls' = Append(doneCalls, failure(err))
    /\ frames' = rootFrame
    /\ UNCHANGED <<emitted, stages>>

\* done(err) from the catch, before loadSource was called
loaderThrows(err) ==
    /\ pc' = "done"
    /\ doneCalls' = Append(doneCalls, failure(err))
    /\ UNCHANGED <<frames, emitted, stages>>

\* The modification times stat reports.
Mtimes == {1}

\* The cache as a loader that validates may find it (no other loader reads
\* it): empty, or holding the schema an earlier invocation built from
\* schema.json of the loader's directory.
CachesFound ==
    {NoSchemas}
    \cup {[path \in {join(LoaderContext, "schema.json")} |-> [mtime |-> m, schema |-> "GraphQLSchema"]]
             : m \in Mtimes}

\* SpecScan and SpecSchemaCache at rest.
IdleScan == sLines = <<>> /\ sResult = <<>>

IdleSchemaCache ==
    /\ invocations = <<>>
    /\ schemaFile = [mtime |-> 0, version |-> 0, json |-> TRUE]
    /\ builds = <<>>

Init ==
    /\ world \in Worlds
    /\ options \in OptionSets
    /\ pc = "init"
    /\ currentContext = <<>>
    /\ schemaPath = <<>>
    /\ lastChangedAt = 0
    /\ schema = "undefined"
    /\ cachedSchemas \in (IF options.validate THEN CachesFound ELSE {NoSchemas})
    /\ frames = NoFrames
    /\ deps = {}
    /\ emitted = <<>>
    /\ doneCalls = <<>>
    /\ stages = NoStages
    /\ overtaken = FALSE
    /\ schemaFailure = ""
    /\ tDoc = NoDocument /\ tPrev = NoDocument /\ tOps = <<>>
    /\ tPhase = "idle" /\ tCur = NoDocument /\ tCounts = <<>>
    /\ IdleScan
    /\ IdleSchemaCache

\* The loader is invoked: loadOptions, and with validate off loadSource at once.
loader ==
    /\ pc = "init"
    /\ IF options.validate
       THEN IF options.schema # ""
            THEN /\ pc' = "findFileInTree"
                 /\ currentContext' = LoaderContext
                 /\ UNCHANGED <<frames, doneCalls, emitted, stages, schemaFailure>>
            ELSE /\ loaderThrows("Error: schema option must be passed if validate is true")
                 /\ schemaFailure' = "absent"
                 /\ UNCHANGED currentContext
       ELSE /\ loaderContinues(rootFrame, "undefined")
            /\ UNCHANGED <<currentContext, schemaFailure>>
    /\ UNCHANGED <<world, options, schemaPath, lastChangedAt, schema, cachedSchemas, deps,
                   overtaken, tvars, xvars>>

\* findFileInTree: the callback of its stat call
findFileInTreeStat ==
    /\ pc = "findFileInTree"
    /\ \E outcome \in {"error", "notFile", "isFile"} :
          LET fileName == join(currentContext, options.schema)
              parent == dirname(currentContext)
          IN IF outcome = "isFile"
             THEN /\ schemaPath' = fileName
                  /\ deps' = deps \cup {fileName}
                  /\ pc' = "stat"
                  /\ UNCHANGED <<currentContext, doneCalls, schemaFailure>>
             ELSE IF parent = currentContext
             THEN /\ pc' = "done"
                  /\ doneCalls' = Append(doneCalls, failure("Error: Could not find schema file"))
                  /\ schemaFailure' = "notFound"
                  /\ UNCHANGED <<currentContext, schemaPath, deps>>
             ELSE /\ currentContext' = parent
                  /\ UNCHANGED <<pc, schemaPath, deps, doneCalls, schemaFailure>>
    /\ UNCHANGED <<world, options, lastChangedAt, schema, cachedSchemas, frames, emitted,
                   stages, overtaken, tvars, xvars>>

\* loadSchema: the callback of stat(loader, schemaPath)
loadSchemaStat ==
    /\ pc = "stat"
    /\ \E outcome \in {"error", "noStats", "stats"} : \E mtime \in Mtimes :
          IF outcome = "stats"
          THEN /\ lastChangedAt' = mtime
               /\ pc' = "readFile"
               /\ UNCHANGED <<doneCalls, schemaFailure>>
          ELSE /\ pc' = "done"
               /\ doneCalls' = Append(doneCalls,
                     failure(IF outcome = "error" THEN "Error: stat" ELSE "null"))
               /\ schemaFailure' = IF outcome = "error" THEN "statError" ELSE "statNoStats"
               /\ UNCHANGED lastChangedAt
    /\ UNCHANGED <<world, options, currentContext, schemaPath, schema, cachedSchemas, frames,
                   deps, emitted, stages, overtaken, tvars, xvars>>

\* cachedSchemas[schemaPath] && lastChangedAt <= cachedSchemas[schemaPath].mtime
cachedIn(cache, path, changedAt) ==
    /\ path \in DOMAIN cache
    /\ changedAt <= cache[path].mtime

cacheValid == cachedIn(cachedSchemas, schemaPath, lastChangedAt)

cacheWith(path, entry) ==
    [p \in DOMAIN cachedSchemas \cup {path} |-> IF p = path THEN entry ELSE cachedSchemas[p]]

\* loadSchema: the callback of readFile(loader, schemaPath), the cache and the
\* build; then loadOptions returns and the loader calls loadSource.
loadSchemaReadFile ==
    /\ pc = "readFile"
    /\ \E outcome \in {"error", "noContent", "json", "notJson"} :
          IF outcome \in {"error", "noContent"}
          THEN /\ loaderThrows(IF outcome = "error" THEN "Error: readFile" ELSE "null")
               /\ schemaFailure' = IF outcome = "error" THEN "readError" ELSE "readNoContent"
               /\ UNCHANGED <<schema, cachedSchemas>>
          ELSE IF cacheValid
          THEN /\ schema' = cachedSchemas[schemaPath].schema
               /\ loaderContinues(rootFrame, schema')
               /\ UNCHANGED <<cachedSchemas, schemaFailure>>
          ELSE IF outcome = "notJson"
          THEN /\ loaderThrows("SyntaxError: JSON")
               /\ schemaFailure' = "notJson"
               /\ UNCHANGED <<schema, cachedSchemas>>
          ELSE /\ schema' = "GraphQLSchema"
               /\ cachedSchemas' = cacheWith(schemaPath, [mtime |-> lastChangedAt, schema |-> schema'])
               /\ loaderContinues(rootFrame, schema')
               /\ UNCHANGED schemaFailure
    /\ UNCHANGED <<world, options, currentContext, schemaPath, lastChangedAt, deps, overtaken,
                   tvars, xvars>>

\* A resolve callback that resolves its promise without loader.addDependency.
dependenciesAfterUnregistered(outcome, result) == deps

\* extractImports, the resolve callback: loader.addDependency(result) unless it rejects
dependenciesAfter(outcome, result) ==
    IF outcome = "result" THEN deps \cup {result} ELSE deps

\* Whether the callback at index fires before one the invocation issued earlier.
overtakes(pendingSet, index) == \E j \in pendingSet : j < index

\* extractImports: the callback of one loader.resolve call
resolveCallback ==
    \E id \in DOMAIN frames : \E index \in frames[id].pendingResolve :
    \E outcome \in {"error", "notString", "result"} :
       LET frame == [frames[id] EXCEPT !.pendingResolve = @ \ {index}]
           result == resolved(frame.context, frame.requests[index])
           files == settled(frame.files, index, result)
       IN /\ deps' = dependenciesAfter(outcome, result)
          /\ IF outcome = "result"
             THEN /\ IF frame.status # "resolving"
                     THEN loaderContinues([frames EXCEPT ![id] = frame], schema)
                     ELSE IF allSettled(files)
                     THEN loaderContinues([frames EXCEPT ![id] = [frame EXCEPT
                              !.files = files,
                              !.status = "reading",
                              !.pendingRead = DOMAIN files.vals]], schema)
                     ELSE loaderContinues([frames EXCEPT ![id] = [frame EXCEPT !.files = files]],
                                          schema)
             ELSE /\ IF frame.status # "resolving"
                     THEN loaderContinues([frames EXCEPT ![id] = frame], schema)
                     ELSE loaderContinues(
                              propagate([frames EXCEPT ![id] = rejectedWith(frame,
                                  IF outcome = "error" THEN "Error: resolve" ELSE "null")], id),
                              schema)
          /\ overtaken' = (overtaken \/ overtakes(frames[id].pendingResolve, index))
    /\ UNCHANGED <<world, options, currentContext, schemaPath, lastChangedAt, schema,
                   cachedSchemas, schemaFailure, tvars, xvars>>

\* readFile: the callback of one loader.fs.readFile call of extractImports;
\* with the last content the imported sources are loaded.
readFileCallback ==
    \E id \in DOMAIN frames : \E index \in frames[id].pendingRead :
    \E outcome \in {"error", "noResult", "result"} :
       LET frame == [frames[id] EXCEPT !.pendingRead = @ \ {index}]
           filePath == frame.files.vals[index]
           contents == settled(frame.contents, index,
                               [fileContext |-> dirname(filePath), content |-> contentOf(filePath)])
       IN /\ IF frame.status # "reading"
             THEN loaderContinues([frames EXCEPT ![id] = frame], schema)
             ELSE IF outcome # "result"
             THEN loaderContinues(
                      propagate([frames EXCEPT ![id] = rejectedWith(frame,
                          IF outcome = "error" THEN "Error: readFile" ELSE "null")], id),
                      schema)
             ELSE IF allSettled(contents)
             THEN loaderContinues(
                      startChildren([frames EXCEPT ![id] = [frame EXCEPT !.contents = contents]], id),
                      schema)
             ELSE loaderContinues([frames EXCEPT ![id] = [frame EXCEPT !.contents = contents]],
                                  schema)
          /\ overtaken' = (overtaken \/ overtakes(frames[id].pendingRead, index))
    /\ UNCHANGED <<world, options, currentContext, schemaPath, lastChangedAt, schema,
                   cachedSchemas, deps, schemaFailure, tvars, xvars>>

Next ==
    \/ loader
    \/ findFileInTreeStat
    \/ loadSchemaStat
    \/ loadSchemaReadFile
    \/ resolveCallback
    \/ readFileCallback

Spec == Init /\ [][Next]_vars

\* ----------------------------------------------------- SpecTransforms

LastTwo(s) == IF Len(s) > 2 THEN SubSeq(s, Len(s) - 1, Len(s)) ELSE s

Completed(name, passes, arg, res) ==
    LastTwo(Append(tOps, [name |-> name, passes |-> passes,
                          removed |-> Len(arg.definitions) - Len(res.definitions)]))

InitTransforms ==
    /\ tDoc \in Documents
    /\ tPrev = tDoc
    /\ tOps = <<>>
    /\ tPhase = "idle"
    /\ tCur = tDoc
    /\ tCounts = <<>>
    /\ world = [imports |-> [f \in AllFiles |-> <<>>], fault |-> [kind |-> "none", file |-> RootFile]]
    /\ options = [validate |-> FALSE, schema |-> "", removeUnusedFragments |-> FALSE,
                  minify |-> FALSE, emitDefaultExport |-> FALSE]
    /\ pc = "init"
    /\ currentContext = <<>>
    /\ schemaPath = <<>>
    /\ lastChangedAt = 0
    /\ schema = "undefined"
    /\ cachedSchemas = NoSchemas
    /\ frames = NoFrames
    /\ deps = {}
    /\ emitted = <<>>
    /\ doneCalls = <<>>
    /\ stages = NoStages
    /\ overtaken = FALSE
    /\ schemaFailure = ""
    /\ IdleScan
    /\ IdleSchemaCache

\* document = removeDuplicateFragments(document)
CallRemoveDuplicateFragments ==
    /\ tPhase = "idle"
    /\ tPrev' = tDoc
    /\ tDoc' = removeDuplicateFragments(tDoc)
    /\ tOps' = Completed("removeDuplicateFragments", 1, tDoc, tDoc')
    /\ tCur' = tDoc'
    /\ tCounts' = <<>>
    /\ UNCHANGED <<tPhase, lvars, xvars>>

\* document = removeUnusedFragments(document): the outermost invocation is entered
CallRemoveUnusedFragments ==
    /\ tPhase = "idle"
    /\ tPhase' = "pruning"
    /\ tPrev' = tDoc
    /\ tCur' = tDoc
    /\ tCounts' = <<>>
    /\ UNCHANGED <<tDoc, tOps, lvars, xvars>>

\* One invocation of removeUnusedFragments: it recurses, or it returns and the
\* result goes back through every pending invocation to the caller.
PrunePass ==
    /\ tPhase = "pruning"
    /\ LET defCount == Len(tCur.definitions)
           result == prunePass(tCur)
       IN /\ tCounts' = Append(tCounts, defCount)
          /\ tCur' = result
          /\ IF pruneAgain(defCount, result)
             THEN UNCHANGED <<tDoc, tPrev, tOps, tPhase>>
             ELSE /\ tDoc' = result
                  /\ tPhase' = "idle"
                  /\ tOps' = Completed("removeUnusedFragments", Len(tCounts) + 1, tPrev, result)
                  /\ UNCHANGED tPrev
    /\ UNCHANGED <<lvars, xvars>>

NextTransforms ==
    \/ CallRemoveDuplicateFragments
    \/ CallRemoveUnusedFragments
    \/ PrunePass

SpecTransforms == InitTransforms /\ [][NextTransforms]_vars

\* ------------------------------------------- SpecTransforms: what is checked

LastOp == tOps[Len(tOps)]

Returned(name) == tPhase = "idle" /\ tOps # <<>> /\ LastOp.name = name

ReturnedTwice(name) ==
    tPhase = "idle" /\ Len(tOps) = 2 /\ tOps[1].name = name /\ tOps[2].name = name

FragmentsOf(doc) == {d \in Range(doc.definitions) : d.kind = "FragmentDefinition"}

OperationsOf(doc) == {d \in Range(doc.definitions) : d.kind = "OperationDefinition"}

HasFragment(doc, n) == \E d \in FragmentsOf(doc) : d.name = n

\* The names spread anywhere inside a selection set, by position.
RECURSIVE SpreadsIn(_)
SpreadsIn(sels) ==
    IF Len(sels) = 0
    THEN {}
    ELSE (IF sels[1].kind = "FragmentSpread" THEN {sels[1].name} ELSE SpreadsIn(sels[1].selectionSet))
         \cup SpreadsIn(Tail(sels))

\* The least set holding S and every name spread by a fragment of doc named in it.
RECURSIVE SpreadClosure(_, _)
SpreadClosure(doc, S) ==
    LET more == S \cup UNION {SpreadsIn(d.selectionSet) : d \in {x \in FragmentsOf(doc) : x.name \in S}}
    IN IF more = S THEN S ELSE SpreadClosure(doc, more)

\* The names spread from an operation of doc, directly or through fragments of doc.
ReachableFromOperations(doc) ==
    SpreadClosure(doc, UNION {SpreadsIn(d.selectionSet) : d \in OperationsOf(doc)})

RECURSIVE IsSubsequence(_, _)
IsSubsequence(a, b) ==
    IF a = <<>> THEN TRUE
    ELSE IF b = <<>> THEN FALSE
    ELSE IF Head(a) = Head(b) THEN IsSubsequence(Tail(a), Tail(b))
    ELSE IsSubsequence(a, Tail(b))

NonFragments(doc) == SelectSeq(doc.definitions, LAMBDA d : d.kind # "FragmentDefinition")

StrictlyDecreasing(s) == \A i \in 1..Len(s) : \A j \in 1..Len(s) : i < j => s[i] > s[j]

\* C3 (as claimed): after removeUnusedFragments every FragmentDefinition left in
\* the document is spread, directly or through a chain of spreads in other
\* fragments, from some OperationDefinition of the document.
C3_EverySurvivorReachableFromAnOperation ==
    Returned("removeUnusedFragments") =>
        \A d \in FragmentsOf(tDoc) : d.name \in ReachableFromOperations(tDoc)

\* C4: after removeUnusedFragments(d), every name spread from an operation of the
\* result, through fields, inline fragments and retained fragments, is the name of
\* a fragment the result retains, unless d defined no fragment of that name.
C4_NeededFragmentsRetained ==
    Returned("removeUnusedFragments") =>
        \A n \in ReachableFromOperations(tDoc) :
            HasFragment(tPrev, n) => HasFragment(tDoc, n)

\* C4's case: the call removed a fragment and kept one that an operation
\* reaches only through a field and an inline fragment.
C4_Witness ==
    /\ Returned("removeUnusedFragments")
    /\ LastOp.removed > 0
    /\ \E op \in OperationsOf(tDoc) : \E f \in FragmentsOf(tDoc) :
          op.selectionSet = Nested(f.name)

\* C5: removeUnusedFragments applied to a result of removeUnusedFragments removes
\* nothing and returns an equal definitions list.
C5_PruneFixedPoint ==
    ReturnedTwice("removeUnusedFragments") =>
        /\ tDoc.definitions = tPrev.definitions
        /\ tOps[2].removed = 0
        /\ tOps[2].passes = 1

\* C5's case: the first call needed three passes, the second call has returned.
C5_Witness ==
    /\ ReturnedTwice("removeUnusedFragments")
    /\ tOps[1].passes = 3
    /\ tOps[1].removed = 2
    /\ tDoc.definitions # <<>>

\* C6: removeUnusedFragments terminates: the definition count strictly decreases
\* from each invocation to the one it makes, the repeated invocations are at most
\* as many as the definitions of the original document, and the result has no
\* more definitions than the input.
C6_PruneTerminates ==
    /\ StrictlyDecreasing(tCounts)
    /\ tCounts # <<>> => Len(tCounts) - 1 <= tCounts[1]
    /\ tPhase = "pruning" => Len(tCur.definitions) <= Len(tPrev.definitions)
    /\ tPhase = "pruning" /\ tCounts # <<>> => Len(tCur.definitions) <= tCounts[Len(tCounts)]
    /\ Returned("removeUnusedFragments") =>
          Len(tDoc.definitions) <= Len(tPrev.definitions)

\* C6's case: a call that repeated itself twice has returned.
C6_Witness ==
    /\ Returned("removeUnusedFragments")
    /\ Len(tCounts) = 3
    /\ tCounts[1] = MaxDefs

\* C7: removeDuplicateFragments applied to a result of removeDuplicateFragments
\* returns the same definitions list.
C7_DedupeIdempotent ==
    ReturnedTwice("removeDuplicateFragments") =>
        tDoc.definitions = tPrev.definitions

\* C7's case: the first call dropped two copies of a fragment, the second has returned.
C7_Witness ==
    /\ ReturnedTwice("removeDuplicateFragments")
    /\ tOps[1].removed = 2

\* C8: both transforms only delete FragmentDefinitions: the definitions list
\* after a call is a subsequence of the list before it, and the definitions
\* that are no fragments are all there, in the same order.
C8_OnlyFragmentsDeleted ==
    /\ IsSubsequence(tCur.definitions, tPrev.definitions)
    /\ NonFragments(tCur) = NonFragments(tPrev)
    /\ tPhase = "idle" =>
          /\ IsSubsequence(tDoc.definitions, tPrev.definitions)
          /\ NonFragments(tDoc) = NonFragments(tPrev)

\* C8's case: removeUnusedFragments has dropped a fragment from a document that
\* holds a type definition and a fragment it keeps.
C8_Witness ==
    /\ Returned("removeUnusedFragments")
    /\ LastOp.removed > 0
    /\ \E d \in Range(tDoc.definitions) : d.kind = "ObjectTypeDefinition"
    /\ \E d \in Range(tDoc.definitions) : d.kind = "FragmentDefinition"

\* ------------------------------------------------------- Spec: what is checked

IsFragmentNamed(def, n) == def.kind = "FragmentDefinition" /\ def.name = n

FragmentIndices(defs, n) == {i \in 1..Len(defs) : IsFragmentNamed(defs[i], n)}

FirstOf(S) == CHOOSE i \in S : \A j \in S : i <= j

FragmentNamesOf(defs) == {defs[i].name : i \in {j \in 1..Len(defs) : defs[j].kind = "FragmentDefinition"}}

OneFragmentPerName(merged, kept) ==
    /\ FragmentNamesOf(kept) = FragmentNamesOf(merged)
    /\ \A n \in FragmentNamesOf(merged) :
          /\ Cardinality(FragmentIndices(kept, n)) = 1
          /\ kept[FirstOf(FragmentIndices(kept, n))] = merged[FirstOf(FragmentIndices(merged, n))]

\* C1: whatever the import graph, the document after expansion and
\* removeDuplicateFragments holds one FragmentDefinition for each fragment
\* name of the merged document, and it is the first definition of that name in
\* merged definition order; so does the document that is printed.
C1_OneFragmentPerName ==
    stages.deduped # <<>> =>
        /\ OneFragmentPerName(stages.expanded[1].definitions, stages.deduped[1].definitions)
        /\ \A n \in FragmentNamesOf(stages.printed[1].definitions) :
              Cardinality(FragmentIndices(stages.printed[1].definitions, n)) = 1

\* C1's case: a diamond, B written before A, both importing W: the merged
\* document holds W's fragments twice and two fragments dup, and B's is kept.
C1_Witness ==
    /\ stages.deduped # <<>>
    /\ world.imports["R"] = <<"B", "A">>
    /\ world.imports["A"] = <<"W">>
    /\ world.imports["B"] = <<"W">>
    /\ Cardinality(FragmentIndices(stages.expanded[1].definitions, "shared")) = 2
    /\ Cardinality(FragmentIndices(stages.expanded[1].definitions, "dup")) = 2
    /\ \E d \in Range(stages.deduped[1].definitions) : IsFragmentNamed(d, "dup") /\ d.loc = "B"

\* The definitions of a file followed by those of its imports, expanded, in
\* the order the #import lines are written.
RECURSIVE ExpandedDefinitions(_)
ExpandedDefinitions(file) ==
    LET RECURSIVE Imported(_)
        Imported(targets) ==
            IF targets = <<>> THEN <<>>
            ELSE ExpandedDefinitions(Head(targets)) \o Imported(Tail(targets))
    IN FileDefinitions(file) \o Imported(world.imports[file])

\* C2: in whatever order the resolve and read callbacks fire and the imported
\* sources finish loading, the document loadSource returns is the file's own
\* definitions followed by the full definitions lists of its imports' expanded
\* documents, in the order the #import lines are written.
C2_MergeFollowsSourceOrder ==
    /\ \A id \in DOMAIN frames :
          frames[id].status = "fulfilled" =>
              frames[id].result.definitions = ExpandedDefinitions(frames[id].file)
    /\ stages.expanded # <<>> =>
          stages.expanded[1].definitions = ExpandedDefinitions(RootFile)

\* C2's case: the root imports B, whose document holds an operation, and then A;
\* A imports W; a callback has overtaken an earlier one; the root has returned.
C2_Witness ==
    /\ <<>> \in DOMAIN frames
    /\ frames[<<>>].status = "fulfilled"
    /\ overtaken
    /\ world.imports["R"] = <<"B", "A">>
    /\ world.imports["A"] = <<"W">>
    /\ Len(frames[<<>>].result.definitions) = 8

\* An invocation of loadSource has thrown: a source that does not parse, a
\* malformed #import line, a resolve callback with an error or without a
\* string, a read callback with an error or without content.
FatalFailure == \E id \in DOMAIN frames : frames[id].status = "rejected"

\* C9 (as claimed): after any of these failures the completion callback has
\* received an error, and no module text.
C9_FailureReportedAsError ==
    FatalFailure =>
        /\ doneCalls # <<>>
        /\ \A k \in 1..Len(doneCalls) :
              doneCalls[k].err # "null" /\ doneCalls[k].result = <<>>

\* C10: when the validator has run and returned n >= 1 errors, emitError has
\* been called once for each of them and the completion callback has received
\* no error and the module text of the validated document.
C10_ValidationErrorsNonFatal ==
    (stages.validated # <<>> /\ Len(stages.errors) >= 1) =>
        /\ emitted = stages.errors
        /\ doneCalls = <<[err |-> "null", result |-> <<moduleText(stages.validated[1])>>]>>

\* C10's case: the validator has returned MaxErrors errors for a document
\* merged from an import.
C10_Witness ==
    /\ stages.validated # <<>>
    /\ Len(stages.errors) = MaxErrors
    /\ Len(emitted) = MaxErrors
    /\ world.imports["R"] # <<>>
    /\ pc = "done"

\* ------------------------------------------------- Spec: the schema and the stages

\* The causes of a schema that cannot be loaded which come with an error: no
\* schema option, no such file up to the root, a stat or a read that fails,
\* content that is not JSON.
SchemaLoadErrors == {"absent", "notFound", "statError", "readError", "notJson"}

\* C11: when validate is set and loading the schema fails, the completion
\* callback is called once, with the error (for every cause of SchemaLoadErrors)
\* and no module text, and the document pipeline has not started: loadSource
\* was never called (no source parsed, no #import resolved or read), the only
\* dependency registered is the schema file, nothing was emitted.
C11_SchemaFailureBeforePipeline ==
    (options.validate /\ schemaFailure # "") =>
        /\ pc = "done"
        /\ Len(doneCalls) = 1
        /\ doneCalls[1].result = <<>>
        /\ schemaFailure \in SchemaLoadErrors => doneCalls[1].err # "null"
        /\ frames = NoFrames
        /\ \A d \in deps : d = schemaPath
        /\ emitted = <<>>
        /\ stages = NoStages

\* C11's case: the schema file was found one directory up, its content is not
\* JSON, and the source has two #import lines.
C11_Witness ==
    /\ options.validate
    /\ schemaFailure = "notJson"
    /\ schemaPath = <<"schema.json">>
    /\ deps = {schemaPath}
    /\ Len(world.imports["R"]) = 2
    /\ doneCalls = <<failure("SyntaxError: JSON")>>

Succeeded == doneCalls # <<>> /\ doneCalls[1].result # <<>>

\* Every name spread by some definition of doc.
SpreadsOf(doc) == UNION {SpreadsIn(d.selectionSet) : d \in Range(doc.definitions)}

\* The document the emitter is handed: the pruner's, or else the deduplicator's.
Transformed == IF stages.pruned # <<>> THEN stages.pruned[1] ELSE stages.deduped[1]

\* C12: in a successful run the expanded document went through the
\* deduplicator, then through the pruner exactly when removeUnusedFragments is
\* set; the validator ran exactly when validate is set, on the document after
\* both (one fragment per name; with the pruner, no fragment nothing spreads);
\* and the document printed into the module text is the one validated.
C12_StagesInOrder ==
    Succeeded =>
        /\ stages.expanded = <<frames[<<>>].result>>
        /\ Len(stages.deduped) = 1
        /\ IsSubsequence(stages.deduped[1].definitions, stages.expanded[1].definitions)
        /\ (stages.pruned # <<>>) <=> (options.removeUnusedFragments = TRUE)
        /\ IsSubsequence(Transformed.definitions, stages.deduped[1].definitions)
        /\ (stages.validated # <<>>) <=> options.validate
        /\ stages.validated # <<>> =>
              /\ stages.validated[1] = Transformed
              /\ \A n \in FragmentNamesOf(stages.validated[1].definitions) :
                    /\ Cardinality(FragmentIndices(stages.validated[1].definitions, n)) = 1
                    /\ options.removeUnusedFragments => n \in SpreadsOf(stages.validated[1])
              /\ stages.printed = stages.validated
        /\ stages.printed = <<Transformed>>
        /\ doneCalls[1].result[1].printed = stages.printed[1]

\* C12's case: validate and removeUnusedFragments are set, the pruner has
\* removed fragments that the deduplicator kept, and the validator found errors.
C12_Witness ==
    /\ Succeeded
    /\ options.validate
    /\ options.removeUnusedFragments
    /\ Len(stages.expanded[1].definitions) > Len(stages.deduped[1].definitions)
    /\ Len(stages.deduped[1].definitions) > Len(stages.pruned[1].definitions)
    /\ stages.validated = stages.pruned
    /\ Len(stages.errors) > 0

\* The files the run loads: the least set holding S and the files its files import.
RECURSIVE ImportClosure(_)
ImportClosure(S) ==
    LET more == S \cup UNION {Range(world.imports[f]) : f \in S}
    IN IF more = S THEN S ELSE ImportClosure(more)

\* The read calls an invocation has made: one for every file, once
\* Promise.all(imports) is fulfilled.
ReadsIssued(frame) == IF allSettled(frame.files) THEN Range(frame.files.vals) ELSE {}

\* C13: when the loader has completed successfully, the resolved path of every
\* #import line of the root source and of every file imported from it, directly
\* or not, has been given to addDependency, whatever became of the file's
\* fragments; and at any time a file that is being read, or was read, has been
\* given to addDependency.
C13_EveryImportRegistered ==
    /\ Succeeded =>
          \A f \in ImportClosure({RootFile}) : \A t \in Range(world.imports[f]) :
              join(LoaderContext, t) \in deps
    /\ \A id \in DOMAIN frames : ReadsIssued(frames[id]) \subseteq deps

\* C13's case: the root imports W only, whose two fragments nothing spreads:
\* the pruner has dropped both, and W is a dependency.
C13_Witness ==
    /\ Succeeded
    /\ options.removeUnusedFragments = TRUE
    /\ world.imports["R"] = <<"W">>
    /\ FragmentNamesOf(stages.expanded[1].definitions) = {"shared", "unused"}
    /\ FragmentNamesOf(stages.printed[1].definitions) = {}
    /\ join(LoaderContext, "W") \in deps

\* C14 (as claimed): with removeUnusedFragments off, every fragment spread of
\* the emitted document names a fragment the document defines.
C14_EverySpreadResolves ==
    (Succeeded /\ options.removeUnusedFragments = FALSE) =>
        SpreadsOf(stages.printed[1]) \subseteq FragmentNamesOf(stages.printed[1].definitions)

\* C14 (amended): with removeUnusedFragments off, every fragment spread of the
\* emitted document names a fragment the document defines, unless neither the
\* source nor any imported file defines a fragment of that name.
C14_DefinedSpreadsResolve ==
    (Succeeded /\ options.removeUnusedFragments = FALSE) =>
        \A n \in SpreadsOf(stages.printed[1]) :
            \/ n \in FragmentNamesOf(stages.printed[1].definitions)
            \/ n \notin FragmentNamesOf(stages.expanded[1].definitions)

\* C14's case: the pruner is off, the merged document holds the fragment
\* named shared twice, and every spread of the emitted document resolves.
C14_Witness ==
    /\ Succeeded
    /\ options.removeUnusedFragments = FALSE
    /\ Cardinality(FragmentIndices(stages.expanded[1].definitions, "shared")) = 2
    /\ SpreadsOf(stages.printed[1]) = {"a", "b", "shared"}
    /\ SpreadsOf(stages.printed[1]) \subseteq FragmentNamesOf(stages.printed[1].definitions)

\* ----------------------------------------------------------------- SpecScan

\* The transforms and the loader at rest.
IdleTransforms ==
    /\ tDoc = NoDocument /\ tPrev = NoDocument /\ tOps = <<>>
    /\ tPhase = "idle" /\ tCur = NoDocument /\ tCounts = <<>>

IdleLoader ==
    /\ world = [imports |-> [f \in AllFiles |-> <<>>], fault |-> [kind |-> "none", file |-> RootFile]]
    /\ options = [validate |-> FALSE, schema |-> "", removeUnusedFragments |-> FALSE,
                  minify |-> FALSE, emitDefaultExport |-> FALSE]
    /\ pc = "init"
    /\ currentContext = <<>>
    /\ schemaPath = <<>>
    /\ lastChangedAt = 0
    /\ schema = "undefined"
    /\ cachedSchemas = NoSchemas
    /\ frames = NoFrames
    /\ deps = {}
    /\ emitted = <<>>
    /\ doneCalls = <<>>
    /\ stages = NoStages
    /\ overtaken = FALSE
    /\ schemaFailure = ""

\* The most lines of a source text.
MaxLines == 2

\* Lines a source text may hold: #import lines well formed, #import lines
\* with the quotes mismatched, half open, absent, or with no path at all, and
\* lines that are no #import lines.
LineForms ==
    {importLine(DoubleQuote, "A"),
     importLine(SingleQuote, "B"),
     <<"#">> \o ImportWord \o <<" ", DoubleQuote, ".", "/", "A", SingleQuote>>,
     <<"#">> \o ImportWord \o <<" ", SingleQuote, ".", "/", "B", DoubleQuote>>,
     <<"#">> \o ImportWord \o <<" ", DoubleQuote, ".", "/", "A">>,
     unquotedImportLine,
     <<"#">> \o ImportWord,
     <<"#">> \o ImportWord \o <<" ">>,
     <<"#">> \o ImportWord \o <<"s", " ", DoubleQuote, ".", "/", "A", DoubleQuote>>,
     <<" ", "#">> \o ImportWord \o <<" ", ".", "/", "W">>,
     commentLine,
     queryLine,
     <<>>}

InitScan ==
    /\ sLines \in SeqsUpTo(LineForms, MaxLines)
    /\ sResult = <<>>
    /\ IdleTransforms
    /\ IdleLoader
    /\ IdleSchemaCache

\* extractImports is called: lines.forEach runs over the lines of the source.
ExtractImportsScan ==
    /\ sResult = <<>>
    /\ sResult' = <<scanImports(sLines, <<>>)>>
    /\ UNCHANGED <<sLines, tvars, lvars, cvars>>

NextScan == ExtractImportsScan

SpecScan == InitScan /\ [][NextScan]_vars

\* ------------------------------------------------- SpecScan: what is checked

\* A line whose first character is "#" and whose first token after it is import.
ImportShaped(line) ==
    /\ line # <<>>
    /\ line[1] = "#"
    /\ split(Tail(line), " ")[1] = ImportWord

SecondToken(line) ==
    IF line = <<>> THEN <<>>
    ELSE LET tokens == split(Tail(line), " ")
         IN IF Len(tokens) >= 2 THEN tokens[2] ELSE <<>>

\* A path between two quote characters that are the same.
MatchingQuotes(token) ==
    /\ Len(token) >= 3
    /\ IsQuote(token[1])
    /\ token[Len(token)] = token[1]

RECURSIVE QuotedPaths(_)
QuotedPaths(lines) ==
    IF lines = <<>> THEN <<>>
    ELSE IF ImportShaped(Head(lines))
    THEN <<SubSeq(SecondToken(Head(lines)), 2, Len(SecondToken(Head(lines))) - 1)>>
         \o QuotedPaths(Tail(lines))
    ELSE QuotedPaths(Tail(lines))

\* C15 (as claimed): the scan fails exactly when some line of the #import
\* shape has no second token, or one that is not a path between matching
\* quotes; otherwise it yields the paths of the #import lines in order, and
\* lines of another shape change nothing.
C15_MalformedImportFails ==
    sResult # <<>> =>
        /\ sResult[1].threw <=>
              \E i \in 1..Len(sLines) :
                  ImportShaped(sLines[i]) /\ ~MatchingQuotes(SecondToken(sLines[i]))
        /\ ~sResult[1].threw => sResult[1].paths = QuotedPaths(sLines)

\* ---------------------------------------------------------------- SpecCycle

\* The deepest loadSource invocation the model follows: expansion of a cyclic
\* import has no end, so the model stops behind this depth.
MaxDepth == 3

\* Import graphs with a cycle: a file that imports itself, two files that
\* import each other, a cycle beside an import that ends, and a root that
\* imports its own file.
CyclicGraphs ==
    {[f \in AllFiles |-> CASE f = "R" -> <<"A">> [] f = "A" -> <<"A">> [] OTHER -> <<>>],
     [f \in AllFiles |-> CASE f = "R" -> <<"A">> [] f = "A" -> <<"B">> [] f = "B" -> <<"A">>
                           [] OTHER -> <<>>],
     [f \in AllFiles |-> CASE f = "R" -> <<"W", "A">> [] f = "A" -> <<"A", "W">> [] OTHER -> <<>>],
     [f \in AllFiles |-> CASE f = "R" -> <<"R">> [] OTHER -> <<>>]}

InitCycle ==
    /\ world \in {[imports |-> g, fault |-> [kind |-> "none", file |-> RootFile]] : g \in CyclicGraphs}
    /\ options \in {o \in OptionSets : ~o.validate /\ o.schema = ""}
    /\ pc = "init"
    /\ currentContext = <<>>
    /\ schemaPath = <<>>
    /\ lastChangedAt = 0
    /\ schema = "undefined"
    /\ cachedSchemas = NoSchemas
    /\ frames = NoFrames
    /\ deps = {}
    /\ emitted = <<>>
    /\ doneCalls = <<>>
    /\ stages = NoStages
    /\ overtaken = FALSE
    /\ schemaFailure = ""
    /\ IdleTransforms
    /\ IdleScan
    /\ IdleSchemaCache

\* readFileCallback, as far as the model follows the recursion.
readFileCallbackToDepth ==
    /\ readFileCallback
    /\ \A id \in DOMAIN frames' : Len(id) <= MaxDepth

NextCycle ==
    \/ loader
    \/ resolveCallback
    \/ readFileCallbackToDepth

SpecCycle == InitCycle /\ [][NextCycle]_vars

\* ------------------------------------------------ SpecCycle: what is checked

NoCallbackFailed == \A id \in DOMAIN frames : frames[id].status # "rejected"

CallbacksPending ==
    \E id \in DOMAIN frames : frames[id].pendingResolve # {} \/ frames[id].pendingRead # {}

\* The loader.fs.readFile calls made so far.
RECURSIVE SumOver(_, _)
SumOver(S, count) ==
    IF S = {} THEN 0
    ELSE LET x == CHOOSE x \in S : TRUE IN count[x] + SumOver(S \ {x}, count)

FileReads ==
    SumOver(DOMAIN frames,
            [id \in DOMAIN frames |->
                IF allSettled(frames[id].files) THEN Len(frames[id].files.vals) ELSE 0])

Depth == IF frames = NoFrames THEN 0
         ELSE CHOOSE n \in 0..MaxDepth :
                  /\ \E id \in DOMAIN frames : Len(id) = n
                  /\ \A id \in DOMAIN frames : Len(id) <= n

\* C16: on an import graph with a cycle, as long as no resolve or read
\* callback has failed, the completion callback has not been called, some
\* resolve or read callback is still to come, and every level of the
\* recursion has cost at least one more file read.
C16_CycleNeverCompletes ==
    (pc # "init" /\ NoCallbackFailed) =>
        /\ doneCalls = <<>>
        /\ pc = "loadSource"
        /\ CallbacksPending
        /\ FileReads >= Depth

\* C16's case: the recursion has reached the depth the model follows, through
\* MaxDepth file reads or more, and nothing has failed or completed.
C16_Witness ==
    /\ pc # "init"
    /\ NoCallbackFailed
    /\ Depth = MaxDepth
    /\ FileReads >= MaxDepth
    /\ doneCalls = <<>>

\* ---------------------------------------------------------- SpecSchemaCache

\* The loader invocations that load the schema at the same time.
MaxInvocations == 2

\* The modification times of the schema file are 1..MaxMtime.
MaxMtime == 2

\* The most times the schema file is written during the invocations.
MaxWrites == 1

\* The path findFileInTree returns to every one of the invocations.
SchemaPath == join(LoaderContext, "schema.json")

\* A loadSchema call: where it stands, the mtime its stat reported, the cache
\* as it was at that moment, the schema it returned, whether that came from
\* the cache, the mtime of the cache entry it then came from, and the mtime
\* the file had when the call returned.
NotCalled ==
    [pc |-> "init", lastChangedAt |-> 0, cacheAtStat |-> NoSchemas,
     schema |-> <<>>, fromCache |-> FALSE, cachedAt |-> 0, fileMtime |-> 0]

lvarsButCache == <<world, options, pc, currentContext, schemaPath, lastChangedAt, schema,
                   frames, deps, emitted, doneCalls, stages, overtaken, schemaFailure>>

InitSchemaCache ==
    /\ invocations = [i \in 1..MaxInvocations |-> NotCalled]
    /\ schemaFile \in [mtime : 1..MaxMtime, version : {0}, json : BOOLEAN]
    /\ builds = <<>>
    /\ IdleLoader
    /\ IdleTransforms
    /\ IdleScan

\* A loader is invoked with validate set: findFileInTree has returned and
\* loadSchema calls stat.
loadSchemaCalled(i) ==
    /\ invocations[i].pc = "init"
    /\ invocations' = [invocations EXCEPT ![i].pc = "stat"]
    /\ UNCHANGED <<schemaFile, builds, cachedSchemas, lvarsButCache, tvars, svars>>

\* const stats = await stat(loader, schemaPath)
loadSchemaStats(i) ==
    /\ invocations[i].pc = "stat"
    /\ \E outcome \in {"error", "stats"} :
          invocations' = [invocations EXCEPT ![i] =
              IF outcome = "error"
              THEN [@ EXCEPT !.pc = "threw"]
              ELSE [@ EXCEPT !.pc = "readFile",
                             !.lastChangedAt = schemaFile.mtime,
                             !.cacheAtStat = cachedSchemas]]
    /\ UNCHANGED <<schemaFile, builds, cachedSchemas, lvarsButCache, tvars, svars>>

\* A loadSchema that checks the cache before it awaits readFile.
cacheCheckedBeforeRead(i) == invocations[i].cacheAtStat

\* The cache the check of loadSchema reads: cachedSchemas as it is when
\* readFile has returned, with no suspension up to the update.
cacheChecked(i) == cachedSchemas

\* buildClientSchema(JSON.parse(schemaString)): a new schema object
builtSchema == [from |-> schemaFile.version, build |-> Len(builds) + 1]

\* const schemaString = await readFile(loader, schemaPath), the cache check,
\* the build and the cache update
loadSchemaContent(i) ==
    /\ invocations[i].pc = "readFile"
    /\ \E outcome \in {"error", "content"} :
          LET changedAt == invocations[i].lastChangedAt
              cache == cacheChecked(i)
          IN IF outcome = "error"
             THEN /\ invocations' = [invocations EXCEPT ![i].pc = "threw"]
                  /\ UNCHANGED <<cachedSchemas, builds>>
             ELSE IF cachedIn(cache, SchemaPath, changedAt)
             THEN /\ invocations' = [invocations EXCEPT ![i] =
                         [@ EXCEPT !.pc = "returned",
                                   !.schema = <<cache[SchemaPath].schema>>,
                                   !.fromCache = TRUE,
                                   !.cachedAt = cache[SchemaPath].mtime,
                                   !.fileMtime = schemaFile.mtime]]
                  /\ UNCHANGED <<cachedSchemas, builds>>
             ELSE IF ~schemaFile.json
             THEN /\ invocations' = [invocations EXCEPT ![i].pc = "threw"]
                  /\ UNCHANGED <<cachedSchemas, builds>>
             ELSE /\ invocations' = [invocations EXCEPT ![i] =
                         [@ EXCEPT !.pc = "returned", !.schema = <<builtSchema>>,
                                   !.fileMtime = schemaFile.mtime]]
                  /\ cachedSchemas' = cacheWith(SchemaPath,
                         [mtime |-> changedAt, schema |-> builtSchema])
                  /\ builds' = Append(builds, [mtime |-> changedAt, schema |-> builtSchema])
    /\ UNCHANGED <<schemaFile, lvarsButCache, tvars, svars>>

\* The schema file is written: other content, another modification time,
\* later or earlier (a file put back from a copy keeps the copy's time).
schemaFileWritten ==
    /\ schemaFile.version < MaxWrites
    /\ \E mtime \in 1..MaxMtime \ {schemaFile.mtime} : \E json \in BOOLEAN :
          schemaFile' = [mtime |-> mtime, version |-> schemaFile.version + 1, json |-> json]
    /\ UNCHANGED <<invocations, builds, cachedSchemas, lvarsButCache, tvars, svars>>

NextSchemaCache ==
    \/ \E i \in 1..MaxInvocations : loadSchemaCalled(i)
    \/ \E i \in 1..MaxInvocations : loadSchemaStats(i)
    \/ \E i \in 1..MaxInvocations : loadSchemaContent(i)
    \/ schemaFileWritten

SpecSchemaCache == InitSchemaCache /\ [][NextSchemaCache]_vars

\* ------------------------------------------ SpecSchemaCache: what is checked

ReturnedSchemas ==
    {invocations[i].schema : i \in {j \in DOMAIN invocations : invocations[j].pc = "returned"}}

\* C17: while the schema file is not written, however the stat and read
\* callbacks of the concurrent invocations interleave, the schema is built at
\* most once, and every invocation that returns holds that one schema object,
\* the one in the cache.
C17_BuiltOnceWhileUnchanged ==
    schemaFile.version = 0 =>
        /\ Len(builds) <= 1
        /\ Cardinality(ReturnedSchemas) <= 1
        /\ \A s \in ReturnedSchemas : s = <<cachedSchemas[SchemaPath].schema>>

\* C17's case: every invocation had passed its stat before the first of them
\* built the schema, all have returned, one from its own build and the others
\* from the cache.
C17_Witness ==
    /\ schemaFile.version = 0
    /\ \A i \in DOMAIN invocations :
          invocations[i].pc = "returned" /\ invocations[i].cacheAtStat = NoSchemas
    /\ Len(builds) = 1
    /\ \E i \in DOMAIN invocations : invocations[i].fromCache
    /\ \E i \in DOMAIN invocations : ~invocations[i].fromCache

\* C18 (as claimed): an invocation whose stat reported the modification time
\* the file has gets the cached schema only when that time is the one recorded
\* with the cached schema; at any other time, later or earlier, it builds the
\* schema anew from the content it read and replaces the cache entry.
C18_CachedOnlyWhileUnchanged ==
    \A i \in DOMAIN invocations :
        (invocations[i].pc = "returned"
            /\ invocations[i].lastChangedAt = invocations[i].fileMtime) =>
                IF invocations[i].fromCache
                THEN invocations[i].lastChangedAt = invocations[i].cachedAt
                ELSE /\ \E k \in 1..Len(builds) :
                           builds[k] = [mtime |-> invocations[i].lastChangedAt,
                                        schema |-> invocations[i].schema[1]]
                     /\ \A k \in 1..Len(builds) :
                           builds[k].mtime = invocations[i].lastChangedAt
                               => builds[k].schema = invocations[i].schema[1]

\* ------------------------------------------------- Spec: after a fatal error

FailureReported == doneCalls # <<>> /\ doneCalls[1].result = <<>>

\* C19 (as claimed): once the completion callback has received a fatal error,
\* no further path is given to addDependency, no further loadSource invocation
\* issues resolve calls and no further file read is issued.
C19_NothingAfterFailure ==
    [][FailureReported =>
          /\ deps' = deps
          /\ DOMAIN frames' = DOMAIN frames
          /\ \A id \in DOMAIN frames : ReadsIssued(frames'[id]) = ReadsIssued(frames[id])]_vars

\* C19 (amended): once the completion callback has been called it is not
\* called again and nothing more is emitted; an invocation of loadSource that
\* has failed stays failed with the same error, issues no read and loads no
\* imported source from then on. (The callbacks still outstanding do fire.)
C19_FailureIsFinal ==
    [][/\ doneCalls # <<>> =>
             (doneCalls' = doneCalls /\ emitted' = emitted /\ stages' = stages)
       /\ \A id \in DOMAIN frames :
             frames[id].status = "rejected" =>
                 /\ frames'[id].status = "rejected"
                 /\ frames'[id].err = frames[id].err
                 /\ ReadsIssued(frames'[id]) = ReadsIssued(frames[id])
                 /\ \A k \in DOMAIN frames' \ DOMAIN frames : parentOf(k) # id]_vars

\* C19's case: the loader has reported the failure of one import while the
\* import beside it, already loading, still has callbacks to come.
C19_Witness ==
    /\ FailureReported
    /\ <<>> \in DOMAIN frames
    /\ frames[<<>>].status = "rejected"
    /\ \E id \in DOMAIN frames :
          /\ Len(id) = 1
          /\ frames[id].status \in {"resolving", "reading"}
          /\ frames[id].pendingResolve \cup frames[id].pendingRead # {}
    /\ \E id \in DOMAIN frames : Len(id) = 1 /\ frames[id].status = "rejected"

\* ------------------------------------------------ Spec: the completion callback

\* No stat, resolve or read callback is outstanding and the loader has been invoked.
Quiescent ==
    /\ pc \notin {"init", "findFileInTree", "stat", "readFile"}
    /\ \A id \in DOMAIN frames : frames[id].pendingResolve = {} /\ frames[id].pendingRead = {}

\* Once every callback has fired the completion callback has been called.
CompletesWhenQuiescent == Quiescent => doneCalls # <<>>

\* C20 (as claimed, what it says of every run): the completion callback is
\* called at most once, and a call brings an error or a module text, one of
\* the two and not both.
C20_CalledOnceWithErrorOrModuleText ==
    /\ Len(doneCalls) <= 1
    /\ \A k \in 1..Len(doneCalls) :
          (doneCalls[k].err # "null") # (doneCalls[k].result # <<>>)

\* What does hold of every run: at most one call, and never an error together
\* with a module text.
CompletesAtMostOnce ==
    /\ Len(doneCalls) <= 1
    /\ \A k \in 1..Len(doneCalls) : ~(doneCalls[k].err # "null" /\ doneCalls[k].result # <<>>)

====
